---- MODULE Spec2Model ----
(***************************************************************************)
(* Model of src/polymer/polymer-element-finder.ts: the ElementVisitor      *)
(* state machine that PolymerElementFinder.findEntities hands to a         *)
(* depth-first syntax-tree traversal.                                      *)
(*                                                                         *)
(* The visitor's fields are the variables entities, element,               *)
(* propertyHandlers and classDetected.  The traversal driver is modelled   *)
(* by a stack of open nodes: it generates a syntax tree node by node,      *)
(* calls the enter/leave callbacks in depth-first order and does not       *)
(* descend into a node whose enter callback returned Skip (the leave       *)
(* callback of that node is still delivered, as estraverse does).          *)
(*                                                                         *)
(* A second specification, SpecConcurrent, has several findEntities calls  *)
(* in flight at once: calls holds the calls and visitors the visitor       *)
(* objects they created; both stay empty in the single traversal of Spec.  *)
(***************************************************************************)
EXTENDS Integers, Sequences, FiniteSets, TLC

VARIABLES entities, element, propertyHandlers, classDetected,
          stack, nodes, skipped, pc, last, calls, visitors

vars == <<entities, element, propertyHandlers, classDetected,
          stack, nodes, skipped, pc, last, calls, visitors>>

(***************************************************************************)
(* Bound of the model: the number of syntax nodes of the traversed tree    *)
(* (declarations, calls, literals, methods, object entries and array       *)
(* elements all count).                                                    *)
(***************************************************************************)
MaxNodes == 5

(***************************************************************************)
(* Values                                                                  *)
(***************************************************************************)
\* `null`, for the element and propertyHandlers fields.
null == [id |-> 0]

\* JavaScript `undefined`, as returned by the name extractors.
undefined == "undefined"

\* estraverse.VisitorOption.Skip
Skip == "Skip"

\* Names the handler map of declarationPropertyHandlers recognises.
HandlerNames == {"is"}

(***************************************************************************)
(* Syntax nodes the driver can generate.                                   *)
(***************************************************************************)
Identifier(n) == [type |-> "Identifier", name |-> n]
Literal(r) == [type |-> "Literal", raw |-> r]
ComputedKey == [type |-> "CallExpression"]

\* Keys of object entries: x, y, the array index 1, the handler name is,
\* and a key no name can be determined for.
PropertyNodes ==
    {[type |-> "Property", key |-> Identifier("x"), kind |-> k] :
         k \in {"init", "get", "set"}}
    \cup {[type |-> "Property", key |-> Identifier("y"), kind |-> "set"],
          [type |-> "Property", key |-> Literal("1"), kind |-> "get"],
          [type |-> "Property", key |-> Identifier("is"), kind |-> "init"],
          [type |-> "Property", key |-> ComputedKey, kind |-> "init"]}

SeqsUpTo(S, n) == UNION {[1..k -> S] : k \in 0..n}

ObjectExpressions(n) ==
    {[type |-> "ObjectExpression", properties |-> ps] :
         ps \in SeqsUpTo(PropertyNodes, n)}

\* Array literals [A, B, A, ...] (identifiers, for behaviors) and
\* ['a.changed', 'b.changed', ...] (string literals, for observers).
ArrayElement(name, i) ==
    IF name = "observers"
    THEN Literal(IF i % 2 = 1 THEN "'a.changed'" ELSE "'b.changed'")
    ELSE Identifier(IF i % 2 = 1 THEN "A" ELSE "B")

ArrayExpression(name, k) ==
    [type |-> "ArrayExpression",
     elements |-> [i \in 1..k |-> ArrayElement(name, i)]]

ReturnStatement(arg) == [type |-> "ReturnStatement", argument |-> arg]

\* Method definitions: accessors and methods named x, getters named
\* behaviors / observers whose body is `return [...]`, `return foo` or empty,
\* and a setter named behaviors.
MethodDefinitions(n) ==
    {[type |-> "MethodDefinition", key |-> Identifier("x"), kind |-> k,
      body |-> <<>>] : k \in {"get", "set", "method"}}
    \cup {[type |-> "MethodDefinition", key |-> Identifier("behaviors"),
           kind |-> "set", body |-> <<>>]}
    \cup {[type |-> "MethodDefinition", key |-> Identifier(nm), kind |-> "get",
           body |-> b] :
             nm \in {"behaviors", "observers"},
             b \in {<<>>, <<ReturnStatement(Identifier("foo"))>>}}
    \cup {[type |-> "MethodDefinition", key |-> Identifier(nm), kind |-> "get",
           body |-> <<ReturnStatement(ArrayExpression(nm, k))>>] :
             nm \in {"behaviors", "observers"}, k \in 0..n}

\* Calls: Polymer(...) with up to two arguments, each an object literal or
\* an identifier, and foo({...}) and a.Polymer({...}).
ArgumentLists ==
    {<<>>, <<"ObjectExpression">>, <<"Identifier">>,
     <<"ObjectExpression", "ObjectExpression">>,
     <<"Identifier", "ObjectExpression">>}

CallExpressions ==
    {[type |-> "CallExpression", callee |-> Identifier("Polymer"),
      arguments |-> a] : a \in ArgumentLists}
    \cup {[type |-> "CallExpression", callee |-> c,
           arguments |-> <<"ObjectExpression">>] :
             c \in {Identifier("foo"),
                    [type |-> "MemberExpression", name |-> "Polymer"]}}

\* Assignments this.is = e, this.x = e, other.is = e and is = e.
AssignmentExpressions ==
    {[type |-> "AssignmentExpression", object |-> "ThisExpression",
      property |-> p] : p \in {"is", "x"}}
    \cup {[type |-> "AssignmentExpression", object |-> o, property |-> "is"] :
             o \in {"Identifier", "none"}}

ClassDeclaration == [type |-> "ClassDeclaration"]

\* Number of syntax nodes a generated node stands for.
RECURSIVE SumLen(_)
SumLen(s) == IF s = <<>> THEN 0
             ELSE (IF Head(s).type = "ReturnStatement"
                      /\ Head(s).argument.type = "ArrayExpression"
                   THEN Len(Head(s).argument.elements) ELSE 0) + SumLen(Tail(s))

Size(node) ==
    CASE node.type = "ObjectExpression" -> 1 + Len(node.properties)
      [] node.type = "MethodDefinition" -> 1 + SumLen(node.body)
      [] OTHER -> 1

(***************************************************************************)
(* Collaborators of the visitor that live outside the file.                *)
(***************************************************************************)
\* new PolymerElementDescriptor({...}): description, events and
\* sourceLocation are read from the declaration node; id and node stand for
\* them.
PolymerElementDescriptor(id, node) ==
    [id |-> id, node |-> node, properties |-> <<>>, behaviors |-> <<>>,
     observers |-> <<>>, handled |-> <<>>, annotated |-> FALSE]

\* PolymerElementDescriptor.addProperty
addProperty(el, prop) == [el EXCEPT !.properties = Append(@, prop)]

\* docs.annotate: attaches the parsed documentation in place.
annotate(d) == [d EXCEPT !.annotated = TRUE]

\* declarationPropertyHandlers(element): a map from the recognised names to
\* handlers that write to the element captured at creation.
declarationPropertyHandlers(el) == [id |-> el.id, names |-> HandlerNames]

\* Calling propertyHandlers[name](value) records the value on the element.
callHandler(el, name) == [el EXCEPT !.handled = Append(@, name)]

\* esutil.objectKeyToString
objectKeyToString(key) ==
    CASE key.type = "Identifier" -> key.name
      [] key.type = "Literal" -> key.raw
      [] OTHER -> undefined

\* esutil.toPropertyDescriptor: getter / setter come from the accessor kind.
toPropertyDescriptor(prop) ==
    [name |-> objectKeyToString(prop.key),
     getter |-> prop.kind = "get",
     setter |-> prop.kind = "set",
     annotated |-> FALSE]

\* astValue.getIdentifierName
getIdentifierName(node) ==
    IF node.type = "Identifier" THEN node.name ELSE undefined

(***************************************************************************)
(* JavaScript objects used as maps ({[name: string]: PolymerProperty}):    *)
(* a sequence of <<name, value>> in property-creation order.               *)
(***************************************************************************)
MapHas(m, n) == \E i \in 1..Len(m) : m[i][1] = n

MapIndex(m, n) == CHOOSE i \in 1..Len(m) : m[i][1] = n

MapGet(m, n) == m[MapIndex(m, n)][2]

MapSet(m, n, v) ==
    IF MapHas(m, n) THEN [m EXCEPT ![MapIndex(m, n)] = <<n, v>>]
    ELSE Append(m, <<n, v>>)

\* Array-index property names and their numeric values.
ArrayIndex(n) == CASE n = "0" -> 0 [] n = "1" -> 1 [] n = "2" -> 2
                   [] OTHER -> -1

RECURSIVE InsertIndexKey(_, _)
InsertIndexKey(keys, n) ==
    IF keys = <<>> THEN <<n>>
    ELSE IF ArrayIndex(n) < ArrayIndex(Head(keys)) THEN <<n>> \o keys
    ELSE <<Head(keys)>> \o InsertIndexKey(Tail(keys), n)

RECURSIVE SortIndexKeys(_)
SortIndexKeys(keys) ==
    IF keys = <<>> THEN <<>>
    ELSE InsertIndexKey(SortIndexKeys(Tail(keys)), Head(keys))

\* Object.keys: array-index names in ascending numeric order, then the
\* other names in creation order.
ObjectKeys(m) ==
    LET names == [i \in 1..Len(m) |-> m[i][1]]
        isIndex(n) == ArrayIndex(n) >= 0
        isName(n) == ArrayIndex(n) < 0
    IN SortIndexKeys(SelectSeq(names, isIndex)) \o SelectSeq(names, isName)

(***************************************************************************)
(* class ElementVisitor.  `this` is the record of the visitor's fields;    *)
(* each callback yields the fields after it ran, the value it returned and *)
(* the error it threw, if any.                                             *)
(***************************************************************************)
Return(this, value) == [this |-> this, ret |-> value, threw |-> "none"]

Throw(this, error) == [this |-> this, ret |-> undefined, threw |-> error]

\* Variant of enterClassDeclaration that keeps a descriptor that is open.
enterClassDeclarationKeepsOpen(this, node, id) ==
    IF this.element # null
    THEN Return([this EXCEPT !.classDetected = TRUE], undefined)
    ELSE LET el == PolymerElementDescriptor(id, node)
         IN Return([this EXCEPT !.classDetected = TRUE,
                                !.element = el,
                                !.propertyHandlers =
                                    declarationPropertyHandlers(el)],
                   undefined)

enterClassDeclaration(this, node, id) ==
    LET el == PolymerElementDescriptor(id, node)
    IN Return([this EXCEPT !.classDetected = TRUE,
                           !.element = el,
                           !.propertyHandlers = declarationPropertyHandlers(el)],
              undefined)

leaveClassDeclaration(this, node) ==
    IF this.element = null
    THEN Throw(this, "TypeError")   \* this.element.properties of null
    ELSE LET t1 == [this EXCEPT !.element.properties =
                        [i \in DOMAIN @ |-> annotate(@[i])]]
             t2 == IF t1.element # null
                   THEN [t1 EXCEPT !.entities = Append(@, annotate(t1.element)),
                                   !.element = null,
                                   !.propertyHandlers = null]
                   ELSE t1
         IN Return([t2 EXCEPT !.classDetected = FALSE], undefined)

enterAssignmentExpression(this, node) ==
    IF this.element = null THEN Return(this, undefined)
    ELSE IF node.object \notin {"none", "ThisExpression"}
    THEN Return(this, undefined)
    ELSE IF node.object = "none"    \* left is no member expression: no property
    THEN Return(this, undefined)
    ELSE IF this.propertyHandlers = null
    THEN Throw(this, "TypeError")   \* `name in null`
    ELSE IF node.property \in this.propertyHandlers.names
    THEN Return([this EXCEPT !.element = callHandler(@, node.property)],
                undefined)
    ELSE Return(this, undefined)

\* Variant of pushBehaviors that collects the names in reverse order.
RECURSIVE pushBehaviorsReversed(_, _)
pushBehaviorsReversed(el, elements) ==
    IF elements = <<>> THEN el
    ELSE pushBehaviorsReversed(
           [el EXCEPT !.behaviors = <<getIdentifierName(Head(elements))>> \o @],
           Tail(elements))

RECURSIVE pushBehaviors(_, _)
pushBehaviors(el, elements) ==
    IF elements = <<>> THEN el
    ELSE pushBehaviors(
           [el EXCEPT !.behaviors = Append(@, getIdentifierName(Head(elements)))],
           Tail(elements))

RECURSIVE pushObservers(_, _)
pushObservers(el, elements) ==
    IF elements = <<>> THEN el
    ELSE pushObservers(
           [el EXCEPT !.observers =
               Append(@, [javascriptNode |-> Head(elements),
                          expression |-> Head(elements).raw])],
           Tail(elements))

enterMethodDefinition(this, node) ==
    IF this.element = null THEN Return(this, undefined)
    ELSE
    LET prop == [type |-> "Property", key |-> node.key, kind |-> node.kind]
        propDesc == annotate(toPropertyDescriptor(prop))
    IN IF prop.kind = "get" /\ propDesc.name \in {"behaviors", "observers"}
       THEN IF node.body = <<>>
            THEN Throw(this, "TypeError")   \* body[0] is undefined
            ELSE IF node.body[1].type # "ReturnStatement"
                    \/ node.body[1].argument.type # "ArrayExpression"
            THEN Throw(this, "TypeError")   \* argument.elements is undefined
            ELSE LET elements == node.body[1].argument.elements
                 IN IF propDesc.name = "behaviors"
                    THEN Return([this EXCEPT !.element =
                                    pushBehaviors(@, elements)], undefined)
                    ELSE Return([this EXCEPT !.element =
                                    pushObservers(@, elements)], undefined)
       ELSE Return([this EXCEPT !.element = addProperty(@, propDesc)], undefined)

\* Variant of enterCallExpression that opens a descriptor only when none is
\* open.
enterCallExpressionWhenIdle(this, node, id) ==
    IF this.classDetected THEN Return(this, Skip)
    ELSE IF /\ node.callee.type = "Identifier" /\ node.callee.name = "Polymer"
            /\ this.element = null
    THEN LET el == annotate(PolymerElementDescriptor(id, node))
         IN Return([this EXCEPT !.element = el,
                                !.propertyHandlers =
                                    declarationPropertyHandlers(el)],
                   undefined)
    ELSE Return(this, undefined)

\* Variant of enterCallExpression that looks at the callee first and skips
\* only calls of Polymer in class-mode.
enterCallExpressionSkipsFactoryOnly(this, node, id) ==
    IF node.callee.type = "Identifier" /\ node.callee.name = "Polymer"
    THEN IF this.classDetected THEN Return(this, Skip)
         ELSE LET el == annotate(PolymerElementDescriptor(id, node))
              IN Return([this EXCEPT !.element = el,
                                     !.propertyHandlers =
                                         declarationPropertyHandlers(el)],
                        undefined)
    ELSE Return(this, undefined)

enterCallExpression(this, node, id) ==
    IF this.classDetected THEN Return(this, Skip)
    ELSE IF node.callee.type = "Identifier" /\ node.callee.name = "Polymer"
    THEN LET el == annotate(PolymerElementDescriptor(id, node))
         IN Return([this EXCEPT !.element = el,
                                !.propertyHandlers =
                                    declarationPropertyHandlers(el)],
                   undefined)
    ELSE Return(this, undefined)

\* Variant of leaveCallExpression that keeps the descriptor open after it was
\* appended.
leaveCallExpressionKeepsElement(this, node) ==
    IF /\ node.callee.type = "Identifier"
       /\ Len(node.arguments) = 1
       /\ node.arguments[1] = "ObjectExpression"
       /\ node.callee.name = "Polymer"
       /\ this.element # null
    THEN Return([this EXCEPT !.entities = Append(@, this.element)], undefined)
    ELSE Return(this, undefined)

\* Variant of leaveCallExpression that puts the descriptor at the front of
\* the list.
leaveCallExpressionUnshift(this, node) ==
    IF /\ node.callee.type = "Identifier"
       /\ Len(node.arguments) = 1
       /\ node.arguments[1] = "ObjectExpression"
       /\ node.callee.name = "Polymer"
       /\ this.element # null
    THEN Return([this EXCEPT !.entities = <<this.element>> \o @,
                             !.element = null,
                             !.propertyHandlers = null],
                undefined)
    ELSE Return(this, undefined)

\* Variant of leaveCallExpression that clears the descriptor and keeps the
\* handler map.
leaveCallExpressionKeepsHandlers(this, node) ==
    IF /\ node.callee.type = "Identifier"
       /\ Len(node.arguments) = 1
       /\ node.arguments[1] = "ObjectExpression"
       /\ node.callee.name = "Polymer"
       /\ this.element # null
    THEN Return([this EXCEPT !.entities = Append(@, this.element),
                             !.element = null],
                undefined)
    ELSE Return(this, undefined)

leaveCallExpression(this, node) ==
    IF /\ node.callee.type = "Identifier"
       /\ Len(node.arguments) = 1
       /\ node.arguments[1] = "ObjectExpression"
       /\ node.callee.name = "Polymer"
       /\ this.element # null
    THEN Return([this EXCEPT !.entities = Append(@, this.element),
                             !.element = null,
                             !.propertyHandlers = null],
                undefined)
    ELSE Return(this, undefined)

\* Variant of scanProperties without the check of the name (lines 180-185).
RECURSIVE scanPropertiesUnchecked(_, _, _)
scanPropertiesUnchecked(props, handlers, s) ==
    IF props = <<>> THEN s
    ELSE
    LET prop == Head(props)
        name == objectKeyToString(prop.key)
    IN IF handlers = null
       THEN [s EXCEPT !.threw = "TypeError"]
       ELSE IF name \in handlers.names
       THEN scanPropertiesUnchecked(Tail(props), handlers,
                           [s EXCEPT !.element = callHandler(@, name)])
       ELSE
       LET descriptor == toPropertyDescriptor(prop)
       IN IF descriptor.getter
          THEN scanPropertiesUnchecked(Tail(props), handlers,
                 [s EXCEPT !.getters = MapSet(@, descriptor.name, descriptor)])
          ELSE IF descriptor.setter
          THEN scanPropertiesUnchecked(Tail(props), handlers,
                 [s EXCEPT !.setters = MapSet(@, descriptor.name, descriptor)])
          ELSE scanPropertiesUnchecked(Tail(props), handlers,
                 [s EXCEPT !.element =
                     addProperty(@, toPropertyDescriptor(prop))])

\* Variant of scanProperties that adds a getter to the element at once
\* instead of buffering it.
RECURSIVE scanPropertiesEager(_, _, _)
scanPropertiesEager(props, handlers, s) ==
    IF props = <<>> THEN s
    ELSE
    LET prop == Head(props)
        name == objectKeyToString(prop.key)
    IN IF name = undefined
       THEN [s EXCEPT !.threw = "unresolvable-key"]
       ELSE IF handlers = null
       THEN [s EXCEPT !.threw = "TypeError"]
       ELSE IF name \in handlers.names
       THEN scanPropertiesEager(Tail(props), handlers,
                           [s EXCEPT !.element = callHandler(@, name)])
       ELSE
       LET descriptor == toPropertyDescriptor(prop)
       IN IF descriptor.setter
          THEN scanPropertiesEager(Tail(props), handlers,
                 [s EXCEPT !.setters = MapSet(@, descriptor.name, descriptor)])
          ELSE scanPropertiesEager(Tail(props), handlers,
                 [s EXCEPT !.element =
                     addProperty(@, toPropertyDescriptor(prop))])

\* The loop over node.properties (lines 177-199).  s holds the element and
\* the getters and setters maps; threw is set when the loop was left by the
\* throw.
RECURSIVE scanProperties(_, _, _)
scanProperties(props, handlers, s) ==
    IF props = <<>> THEN s
    ELSE
    LET prop == Head(props)
        name == objectKeyToString(prop.key)
    IN IF name = undefined
       THEN [s EXCEPT !.threw = "unresolvable-key"]
       ELSE IF handlers = null
       THEN [s EXCEPT !.threw = "TypeError"]
       ELSE IF name \in handlers.names
       THEN scanProperties(Tail(props), handlers,
                           [s EXCEPT !.element = callHandler(@, name)])
       ELSE
       LET descriptor == toPropertyDescriptor(prop)
       IN IF descriptor.getter
          THEN scanProperties(Tail(props), handlers,
                 [s EXCEPT !.getters = MapSet(@, descriptor.name, descriptor)])
          ELSE IF descriptor.setter
          THEN scanProperties(Tail(props), handlers,
                 [s EXCEPT !.setters = MapSet(@, descriptor.name, descriptor)])
          ELSE scanProperties(Tail(props), handlers,
                 [s EXCEPT !.element =
                     addProperty(@, toPropertyDescriptor(prop))])

\* Object.keys(getters).forEach (lines 200-203)
RECURSIVE defineGetters(_, _, _)
defineGetters(keys, getters, definedProperties) ==
    IF keys = <<>> THEN definedProperties
    ELSE LET get == MapGet(getters, Head(keys))
         IN defineGetters(Tail(keys), getters,
                          MapSet(definedProperties, get.name, get))

\* Object.keys(setters).forEach (lines 204-211)
RECURSIVE defineSetters(_, _, _)
defineSetters(keys, setters, definedProperties) ==
    IF keys = <<>> THEN definedProperties
    ELSE LET set == MapGet(setters, Head(keys))
         IN defineSetters(Tail(keys), setters,
              IF ~MapHas(definedProperties, set.name)
              THEN MapSet(definedProperties, set.name, set)
              ELSE MapSet(definedProperties, set.name,
                          [MapGet(definedProperties, set.name)
                             EXCEPT !.setter = TRUE]))

\* Object.keys(definedProperties).forEach (lines 212-215)
RECURSIVE addDefined(_, _, _)
addDefined(keys, definedProperties, el) ==
    IF keys = <<>> THEN el
    ELSE addDefined(Tail(keys), definedProperties,
                    addProperty(el, MapGet(definedProperties, Head(keys))))

\* Lines 200-215: the merge of the buffered getters and setters.
mergeAccessors(el, getters, setters) ==
    LET d1 == defineGetters(ObjectKeys(getters), getters, <<>>)
        d2 == defineSetters(ObjectKeys(setters), setters, d1)
    IN addDefined(ObjectKeys(d2), d2, el)

\* Variant of enterObjectExpression that returns the skip signal also when
\* no descriptor is open.
enterObjectExpressionSkipsWhenIdle(this, node) ==
    IF this.classDetected THEN Return(this, Skip)
    ELSE IF this.element # null
    THEN LET s == scanProperties(node.properties, this.propertyHandlers,
                     [element |-> this.element, getters |-> <<>>,
                      setters |-> <<>>, threw |-> "none"])
         IN IF s.threw # "none"
            THEN Throw([this EXCEPT !.element = s.element], s.threw)
            ELSE Return([this EXCEPT !.element =
                            mergeAccessors(s.element, s.getters, s.setters)],
                        Skip)
    ELSE Return(this, Skip)

enterObjectExpression(this, node) ==
    IF this.classDetected THEN Return(this, Skip)
    ELSE IF this.element # null
    THEN LET s == scanProperties(node.properties, this.propertyHandlers,
                     [element |-> this.element, getters |-> <<>>,
                      setters |-> <<>>, threw |-> "none"])
         IN IF s.threw # "none"
            THEN Throw([this EXCEPT !.element = s.element], s.threw)
            ELSE Return([this EXCEPT !.element =
                            mergeAccessors(s.element, s.getters, s.setters)],
                        Skip)
    ELSE Return(this, undefined)

(***************************************************************************)
(* The traversal driver and findEntities.                                  *)
(*                                                                         *)
(* stack   : the open nodes, innermost last; a frame holds the node, its   *)
(*           id, the number of object-literal arguments still to visit     *)
(*           (calls), whether the enter callback returned Skip and whether *)
(*           a class declaration was entered below the node                *)
(* nodes   : number of syntax nodes generated so far (ids are 1..nodes)    *)
(* skipped : the nodes the driver passed over inside skipped subtrees,     *)
(*           each with its id and whether it lies in a class declaration   *)
(* pc      : "visit" (the driver picks the next event), "returned" (a      *)
(*           callback has just returned), "done" (findEntities returned    *)
(*           visitor.entities), "failed" (a callback threw and the         *)
(*           promise is rejected)                                          *)
(* last    : the callback that ran last: event, node, fields of the        *)
(*           visitor before it, value returned and error thrown            *)
(***************************************************************************)
This == [entities |-> entities, element |-> element,
         propertyHandlers |-> propertyHandlers, classDetected |-> classDetected]

\* The frame standing for the program, below every open node.
Program == [node |-> [type |-> "Program"], id |-> 0, skip |-> FALSE,
            hasClass |-> FALSE, over |-> 0, todo |-> 0]

\* The value of last when no callback has just returned.
NoEvent ==
    [ev |-> "none", node |-> [type |-> "none"], id |-> 0, frame |-> Program,
     this |-> [entities |-> <<>>, element |-> null, propertyHandlers |-> null,
               classDetected |-> FALSE],
     ret |-> undefined, threw |-> "none"]

\* over is the id of the descriptor that was open when the node was entered
\* (0 when none was).
Frame(node, id, skip) ==
    [node |-> node, id |-> id, skip |-> skip, hasClass |-> FALSE,
     over |-> element.id,
     todo |-> IF node.type = "CallExpression"
              THEN Len(SelectSeq(node.arguments,
                                 LAMBDA a : a = "ObjectExpression"))
              ELSE 0]

\* The innermost open node; the program itself when none is open.
Top == IF stack = <<>> THEN Program ELSE stack[Len(stack)]

Pop == SubSeq(stack, 1, Len(stack) - 1)

InClass == \E i \in 1..Len(stack) : stack[i].node.type = "ClassDeclaration"

\* Positions where a statement or expression may occur: the program, a
\* method body, or a value of an object literal that is being descended.
StatementPosition ==
    \/ Top.node.type \in {"Program", "MethodDefinition"}
    \/ Top.node.type = "ObjectExpression" /\ ~Top.skip

ArgumentPosition ==
    /\ Top.node.type = "CallExpression"
    /\ ~Top.skip
    /\ Top.todo > 0

\* Descriptors are objects: an entry of the list that is the very object
\* this.element refers to shows every change made through this.element.
Aliased(this) ==
    [i \in DOMAIN this.entities |->
        IF this.entities[i].id = this.element.id
        THEN this.element ELSE this.entities[i]]

\* The visitor's fields and the event record after callback ev returned r.
Callback(ev, node, id, r) ==
    /\ entities' = Aliased(r.this)
    /\ element' = r.this.element
    /\ propertyHandlers' = r.this.propertyHandlers
    /\ classDetected' = r.this.classDetected
    /\ last' = [ev |-> ev, node |-> node, id |-> id, frame |-> Top,
                this |-> This, ret |-> r.ret, threw |-> r.threw]
    /\ pc' = IF r.threw = "none" THEN "returned" ELSE "failed"
    /\ UNCHANGED <<calls, visitors>>

\* new ElementVisitor(), and a traversal that has not started.
Init ==
    /\ entities = <<>>
    /\ element = null
    /\ propertyHandlers = null
    /\ classDetected = FALSE
    /\ stack = <<>>
    /\ nodes = 0
    /\ skipped = {}
    /\ pc = "visit"
    /\ last = NoEvent
    /\ calls = <<>>
    /\ visitors = <<>>

EnterClassDeclaration ==
    /\ pc = "visit" /\ StatementPosition /\ nodes < MaxNodes
    /\ LET node == ClassDeclaration
           id == nodes + 1
       IN /\ Callback("enterClassDeclaration", node, id,
                      enterClassDeclaration(This, node, id))
          /\ stack' = Append([i \in DOMAIN stack |->
                                 [stack[i] EXCEPT !.hasClass = TRUE]],
                             Frame(node, id, FALSE))
          /\ nodes' = id
          /\ UNCHANGED skipped

LeaveClassDeclaration ==
    /\ pc = "visit" /\ stack # <<>> /\ Top.node.type = "ClassDeclaration"
    /\ Callback("leaveClassDeclaration", Top.node, Top.id,
                leaveClassDeclaration(This, Top.node))
    /\ stack' = Pop
    /\ UNCHANGED <<nodes, skipped>>

EnterMethodDefinition ==
    /\ pc = "visit" /\ stack # <<>> /\ Top.node.type = "ClassDeclaration"
    /\ nodes < MaxNodes
    /\ \E node \in MethodDefinitions(MaxNodes - nodes - 1) :
         LET id == nodes + 1
         IN /\ Callback("enterMethodDefinition", node, id,
                        enterMethodDefinition(This, node))
            /\ stack' = Append(stack, Frame(node, id, FALSE))
            /\ nodes' = nodes + Size(node)
            /\ UNCHANGED skipped

EnterAssignmentExpression ==
    /\ pc = "visit" /\ StatementPosition /\ nodes < MaxNodes
    /\ \E node \in AssignmentExpressions :
         /\ Callback("enterAssignmentExpression", node, nodes + 1,
                     enterAssignmentExpression(This, node))
    /\ nodes' = nodes + 1
    /\ UNCHANGED <<stack, skipped>>

EnterCallExpression ==
    /\ pc = "visit" /\ StatementPosition /\ nodes < MaxNodes
    /\ \E node \in CallExpressions :
         LET id == nodes + 1
             r == enterCallExpression(This, node, id)
         IN /\ Callback("enterCallExpression", node, id, r)
            /\ stack' = Append(stack, Frame(node, id, r.ret = Skip))
            /\ nodes' = id
            /\ UNCHANGED skipped

LeaveCallExpression ==
    /\ pc = "visit" /\ stack # <<>> /\ Top.node.type = "CallExpression"
    /\ Top.skip \/ Top.todo = 0
    /\ Callback("leaveCallExpression", Top.node, Top.id,
                leaveCallExpression(This, Top.node))
    /\ stack' = Pop
    /\ UNCHANGED <<nodes, skipped>>

EnterObjectExpression ==
    /\ pc = "visit" /\ nodes < MaxNodes
    /\ StatementPosition \/ ArgumentPosition
    /\ \E node \in ObjectExpressions(MaxNodes - nodes - 1) :
         LET id == nodes + 1
             r == enterObjectExpression(This, node)
             below == IF ArgumentPosition
                      THEN [stack EXCEPT ![Len(stack)].todo = @ - 1]
                      ELSE stack
         IN /\ Callback("enterObjectExpression", node, id, r)
            /\ stack' = Append(below, Frame(node, id, r.ret = Skip))
            /\ nodes' = nodes + Size(node)
            /\ UNCHANGED skipped

\* Method definitions and object literals have no leave callback.
LeaveNode ==
    /\ pc = "visit" /\ stack # <<>>
    /\ Top.node.type \in {"MethodDefinition", "ObjectExpression"}
    /\ stack' = Pop
    /\ UNCHANGED <<entities, element, propertyHandlers, classDetected,
                   nodes, skipped, pc, last, calls, visitors>>

\* A child of a node whose enter callback returned Skip: no callback runs.
SkipChild ==
    /\ pc = "visit" /\ stack # <<>> /\ Top.skip /\ nodes < MaxNodes
    /\ \E node \in CallExpressions \cup ObjectExpressions(MaxNodes - nodes - 1) :
         /\ Top.node.type = "CallExpression"
              => node.type = "ObjectExpression" /\ Top.todo > 0
         /\ skipped' = skipped \cup
               {[id |-> nodes + 1, node |-> node, inClass |-> InClass]}
         /\ nodes' = nodes + Size(node)
         /\ stack' = IF Top.node.type = "CallExpression"
                     THEN [stack EXCEPT ![Len(stack)].todo = @ - 1]
                     ELSE stack
    /\ UNCHANGED <<entities, element, propertyHandlers, classDetected,
                   pc, last, calls, visitors>>

\* The driver takes control back from a callback.
Continue ==
    /\ pc = "returned"
    /\ pc' = "visit"
    /\ last' = NoEvent
    /\ UNCHANGED <<entities, element, propertyHandlers, classDetected,
                   stack, nodes, skipped, calls, visitors>>

\* `await visit(visitor)` resolves; findEntities returns visitor.entities.
Finish ==
    /\ pc = "visit" /\ stack = <<>>
    /\ pc' = "done"
    /\ UNCHANGED <<entities, element, propertyHandlers, classDetected,
                   stack, nodes, skipped, last, calls, visitors>>

Next ==
    \/ EnterClassDeclaration
    \/ LeaveClassDeclaration
    \/ EnterMethodDefinition
    \/ EnterAssignmentExpression
    \/ EnterCallExpression
    \/ LeaveCallExpression
    \/ EnterObjectExpression
    \/ LeaveNode
    \/ SkipChild
    \/ Continue
    \/ Finish

Spec == Init /\ [][Next]_vars

(***************************************************************************)
(* Vocabulary of the properties.                                           *)
(***************************************************************************)
\* A call of the declaration factory: the callee is the identifier Polymer.
IsFactoryCall(node) ==
    node.type = "CallExpression" /\ node.callee = Identifier("Polymer")

\* A factory call with exactly one argument, an object literal.
IsWellFormedFactoryCall(node) ==
    IsFactoryCall(node) /\ node.arguments = <<"ObjectExpression">>

IsMalformedFactoryCall(node) ==
    IsFactoryCall(node) /\ node.arguments # <<"ObjectExpression">>

\* Number of descriptors of the list that were opened by node id.
Count(list, id) == Cardinality({i \in DOMAIN list : list[i].id = id})

Names(props) == [i \in DOMAIN props |-> props[i].name]

UniqueNames(props) ==
    \A i, j \in DOMAIN props : props[i].name = props[j].name => i = j

\* The callback that ran last is enterObjectExpression, with a descriptor
\* open and class-mode clear: the object literal is a declaration body.
BodyEvent ==
    /\ last.ev = "enterObjectExpression"
    /\ last.this.element # null
    /\ ~last.this.classDetected

\* ... and it was processed to the end.
BodyProcessed == BodyEvent /\ last.threw = "none"

KeyName(p) ==
    IF p.key.type = "Identifier" THEN p.key.name
    ELSE IF p.key.type = "Literal" THEN p.key.raw ELSE undefined

IsAccessor(p) == p.kind \in {"get", "set"} /\ KeyName(p) \notin HandlerNames

IsData(p) == p.kind = "init" /\ KeyName(p) \notin HandlerNames

\* The names of s, each once, in the order of their first occurrence.
RECURSIVE FirstOccurrences(_, _)
FirstOccurrences(s, seen) ==
    IF s = <<>> THEN <<>>
    ELSE IF Head(s) \in seen THEN FirstOccurrences(Tail(s), seen)
    ELSE <<Head(s)>> \o FirstOccurrences(Tail(s), seen \cup {Head(s)})

GetterNames(body) ==
    LET isGetter(p) == IsAccessor(p) /\ p.kind = "get"
        g == SelectSeq(body, isGetter)
    IN FirstOccurrences([i \in DOMAIN g |-> KeyName(g[i])], {})

SetterNames(body) ==
    LET isSetter(p) == IsAccessor(p) /\ p.kind = "set"
        t == SelectSeq(body, isSetter)
    IN FirstOccurrences([i \in DOMAIN t |-> KeyName(t[i])], {})

Range(s) == {s[i] : i \in DOMAIN s}

(***************************************************************************)
(* C1.  A traversal of a single class declaration whose body contains no   *)
(* other class declaration ends with exactly one descriptor in the result  *)
(* list, the one enterClassDeclaration opened; factory calls nested in the *)
(* body produce none.  Stated at the leave event of the class that is the  *)
(* first node of the tree: the callback completes and the result list is   *)
(* that one descriptor.                                                    *)
(***************************************************************************)
C1_SingleClassOneDescriptor ==
    (/\ last.ev = "leaveClassDeclaration"
     /\ last.id = 1
     /\ ~last.frame.hasClass)
    => /\ last.threw = "none"
       /\ Len(entities) = 1
       /\ entities[1].id = 1

(***************************************************************************)
(* C2.  Every factory call with exactly one argument, an object literal,   *)
(* that occurs outside a class declaration gets exactly one descriptor in  *)
(* the result list, whatever preceded it.  Stated for the calls the driver *)
(* left and, in the list findEntities returns, for the calls it passed     *)
(* over in a skipped subtree; the latter already in traversals that leave  *)
(* no descriptor open.                                                     *)
(***************************************************************************)
C2_EveryFactoryCallOneDescriptor ==
    /\ (/\ last.ev = "leaveCallExpression"
        /\ IsWellFormedFactoryCall(last.node)
        /\ ~InClass)
       => Count(entities, last.id) = 1
    /\ (pc = "done" /\ element = null)
       => \A n \in skipped :
            IsWellFormedFactoryCall(n.node) /\ ~n.inClass
              => Count(entities, n.id) = 1

(***************************************************************************)
(* C2, amended.  For a factory call with exactly one argument, an object   *)
(* literal, outside a class declaration, whose enter and leave events the  *)
(* driver delivers: no descriptor of the call is in the result list before *)
(* its leave event, the leave event appends exactly the descriptor the     *)
(* call's enter event opened, and no descriptor is in the list twice.      *)
(***************************************************************************)
C2_VisitedFactoryCallOneDescriptor ==
    /\ (/\ last.ev = "enterCallExpression"
        /\ IsWellFormedFactoryCall(last.node)
        /\ ~last.this.classDetected)
       => /\ element # null /\ element.id = last.id
          /\ Count(entities, last.id) = 0
    /\ (/\ last.ev = "leaveCallExpression"
        /\ IsWellFormedFactoryCall(last.node)
        /\ ~InClass)
       => /\ Len(entities) = Len(last.this.entities) + 1
          /\ SubSeq(entities, 1, Len(last.this.entities)) = last.this.entities
          /\ entities[Len(entities)].id = last.id
          /\ Count(entities, last.id) = 1
    /\ \A i \in DOMAIN entities :
         IsWellFormedFactoryCall(entities[i].node)
           => Count(entities, entities[i].id) = 1

\* A well-formed factory call that is not the first node of the tree was
\* left outside a class declaration and its descriptor appended.
C2_Witness ==
    /\ last.ev = "leaveCallExpression"
    /\ IsWellFormedFactoryCall(last.node)
    /\ ~InClass
    /\ last.id > 1
    /\ entities # <<>> /\ entities[Len(entities)].id = last.id

(***************************************************************************)
(* C3.  A factory call with zero arguments, more than one argument or a    *)
(* single argument that is no object literal produces no descriptor: the   *)
(* descriptor its enter event opened is never in the result list.          *)
(***************************************************************************)
C3_MalformedFactoryCallNoDescriptor ==
    \A i \in DOMAIN entities : ~IsMalformedFactoryCall(entities[i].node)

(***************************************************************************)
(* C4.  The properties of the open descriptor and of every finalized       *)
(* descriptor hold no two entries with the same name.                      *)
(***************************************************************************)
C4_PropertyNamesUnique ==
    /\ element # null => UniqueNames(element.properties)
    /\ \A i \in DOMAIN entities : UniqueNames(entities[i].properties)

(***************************************************************************)
(* C5.  After enterObjectExpression processed a declaration body, every    *)
(* accessor name n of the body that is no handler name has exactly one     *)
(* entry in properties, with getter = TRUE iff the body has a getter n and *)
(* setter = TRUE iff the body has a setter n.                              *)
(***************************************************************************)
C5_AccessorsMergedToOneEntry ==
    BodyProcessed =>
      LET body == last.node.properties
          props == element.properties
      IN \A n \in Range(GetterNames(body)) \cup Range(SetterNames(body)) :
           /\ Cardinality({i \in DOMAIN props : props[i].name = n}) = 1
           /\ \A i \in DOMAIN props :
                props[i].name = n =>
                  /\ props[i].getter <=> n \in Range(GetterNames(body))
                  /\ props[i].setter <=> n \in Range(SetterNames(body))

(***************************************************************************)
(* C6.  The accessor entries enterObjectExpression appends for a body are  *)
(* the getters, in the order their names were first discovered, followed   *)
(* by the setters without a getter, in their discovery order.              *)
(***************************************************************************)
C6_GettersThenLeftoverSetters ==
    BodyProcessed =>
      LET body == last.node.properties
          before == Len(last.this.element.properties)
                    + Len(SelectSeq(body, IsData))
          merged == SubSeq(element.properties, before + 1,
                           Len(element.properties))
          getters == GetterNames(body)
          isLeftover(n) == n \notin Range(getters)
      IN Names(merged) = getters \o SelectSeq(SetterNames(body), isLeftover)

(***************************************************************************)
(* C7.  enterObjectExpression, run with a descriptor open and class-mode   *)
(* clear on a body with an entry whose key has no name, throws the         *)
(* unresolvable-key error; the traversal is over and the result list is    *)
(* what it was before the event.                                           *)
(***************************************************************************)
HasUnresolvableKey(body) == \E i \in DOMAIN body : KeyName(body[i]) = undefined

C7_UnresolvableKeyAborts ==
    /\ (BodyEvent /\ HasUnresolvableKey(last.node.properties))
       => last.threw = "unresolvable-key"
    /\ last.threw = "unresolvable-key"
       => /\ pc = "failed"
          /\ entities = last.this.entities
          /\ \A i \in DOMAIN entities : entities[i].id # last.this.element.id

\* The error is thrown for a body with entries before the unresolvable one,
\* after an earlier declaration was finalized.
C7_Witness ==
    /\ BodyEvent
    /\ last.threw = "unresolvable-key"
    /\ entities # <<>>

(***************************************************************************)
(* C8.  When enterObjectExpression fails with the unresolvable-key error,  *)
(* the open descriptor's properties and handler-populated fields are what  *)
(* they were before the event.                                             *)
(***************************************************************************)
C8_NoChangeOnError ==
    last.threw = "unresolvable-key"
    => /\ element.properties = last.this.element.properties
       /\ element.handled = last.this.element.handled

(***************************************************************************)
(* C8, amended.  When enterObjectExpression fails with the unresolvable-   *)
(* key error, no accessor of the body has been merged into properties: the *)
(* descriptor has gained exactly the data properties that precede the      *)
(* unresolvable entry, as plain entries in source order, and the handler   *)
(* calls for the handler-named entries that precede it; behaviors and      *)
(* observers are unchanged.                                                *)
(***************************************************************************)
FirstUnresolvable(body) ==
    CHOOSE i \in DOMAIN body :
      /\ KeyName(body[i]) = undefined
      /\ \A j \in 1..(i - 1) : KeyName(body[j]) # undefined

C8_OnlyAccessorsDroppedOnError ==
    last.threw = "unresolvable-key"
    => LET body == last.node.properties
           pre == last.this.element
           prefix == SubSeq(body, 1, FirstUnresolvable(body) - 1)
           isHandled(p) == KeyName(p) \in HandlerNames
           data == SelectSeq(prefix, IsData)
           handled == SelectSeq(prefix, isHandled)
           added == SubSeq(element.properties, Len(pre.properties) + 1,
                           Len(element.properties))
       IN /\ SubSeq(element.properties, 1, Len(pre.properties))
               = pre.properties
          /\ Names(added) = [i \in DOMAIN data |-> KeyName(data[i])]
          /\ \A i \in DOMAIN added : ~added[i].getter /\ ~added[i].setter
          /\ element.handled
               = pre.handled \o [i \in DOMAIN handled |-> KeyName(handled[i])]
          /\ element.behaviors = pre.behaviors
          /\ element.observers = pre.observers

\* The error is thrown after a data property and an accessor of the body
\* were scanned.
C8_Witness ==
    /\ last.threw = "unresolvable-key"
    /\ LET prefix == SubSeq(last.node.properties, 1,
                            FirstUnresolvable(last.node.properties) - 1)
       IN /\ \E i \in DOMAIN prefix : IsData(prefix[i])
          /\ \E i \in DOMAIN prefix : IsAccessor(prefix[i])
    /\ element.properties # last.this.element.properties

(***************************************************************************)
(* C9.  Every callback completes without an error in a traversal whose     *)
(* object-literal keys are all resolvable; in particular                   *)
(* leaveClassDeclaration never fails.  Stated for the callbacks other than *)
(* the entry of a behaviors / observers getter whose body is not a return  *)
(* of an array literal.                                                    *)
(***************************************************************************)
IsListGetter(node) ==
    /\ node.type = "MethodDefinition"
    /\ node.kind = "get"
    /\ node.key.name \in {"behaviors", "observers"}

ReturnsArray(node) ==
    /\ node.body # <<>>
    /\ node.body[1].type = "ReturnStatement"
    /\ node.body[1].argument.type = "ArrayExpression"

C9_OnlyUnresolvableKeyFails ==
    (/\ last.ev # "none"
     /\ last.threw # "unresolvable-key"
     /\ IsListGetter(last.node) => ReturnsArray(last.node))
    => last.threw = "none"

ListOnlyGrows ==
    /\ Len(last.this.entities) <= Len(entities)
    /\ SubSeq(entities, 1, Len(last.this.entities)) = last.this.entities

\* C11: a descriptor that is in the result list is never changed by a later
\* callback (its properties, behaviors, observers and everything else stay
\* as they were when it was appended), and no descriptor is in the list
\* twice.
C11_AppendedDescriptorsImmutable ==
    /\ last.ev # "none" =>
          \A i \in DOMAIN last.this.entities :
             /\ i \in DOMAIN entities
             /\ entities[i] = last.this.entities[i]
    /\ \A i, j \in DOMAIN entities : entities[i].id = entities[j].id => i = j

\* A callback has just changed the open descriptor while the list already
\* held a descriptor.
C11_Witness ==
    /\ last.ev \in {"enterMethodDefinition", "enterObjectExpression",
                    "enterAssignmentExpression"}
    /\ last.this.entities # <<>>
    /\ last.this.element # null
    /\ element # last.this.element

\* C12: the descriptors of the result list are in the order in which their
\* declarations were opened, and the list only grows at its end.
C12_DeclarationOrder ==
    /\ \A i, j \in DOMAIN entities : i < j => entities[i].id < entities[j].id
    /\ last.ev # "none" =>
          ListOnlyGrows /\ Len(entities) <= Len(last.this.entities) + 1

\* A second descriptor has just been appended.
C12_Witness ==
    /\ last.ev \in {"leaveCallExpression", "leaveClassDeclaration"}
    /\ Len(last.this.entities) >= 1
    /\ Len(entities) = Len(last.this.entities) + 1

(***************************************************************************)
(* Opening a declaration.                                                  *)
(***************************************************************************)
\* The callback that ran last opens a declaration: a class was entered, or
\* a call of Polymer was entered with class-mode clear.
OpeningEvent ==
    \/ last.ev = "enterClassDeclaration"
    \/ /\ last.ev = "enterCallExpression"
       /\ IsFactoryCall(last.node)
       /\ ~last.this.classDetected

\* C14: a declaration is opened only when no descriptor is open: the
\* opening callbacks never replace or discard an open descriptor.
C14_OpenOnlyWhenIdle ==
    OpeningEvent => last.this.element = null

(***************************************************************************)
(* A class entered while a descriptor is open.                             *)
(***************************************************************************)
HasId(list, id) == \E i \in DOMAIN list : list[i].id = id

\* The callback that ran last is the leave of a class that lies in the body
\* of another class and was entered while a descriptor was open.
NestedClassLeft ==
    /\ last.ev = "leaveClassDeclaration"
    /\ last.threw = "none"
    /\ last.frame.over # 0
    /\ InClass

OtherCallEntered ==
    last.ev = "enterCallExpression" /\ ~IsFactoryCall(last.node)

\* The last callback left every field of the visitor as it was and threw
\* nothing.
NoOp == This = last.this /\ last.threw = "none"

\* C16: entering a call whose callee is not Polymer changes no field of
\* the visitor and never returns the skip signal, in class-mode or not.
C16_OtherCallIgnored ==
    OtherCallEntered => NoOp /\ last.ret # Skip

\* C16, amended: entering a call whose callee is not Polymer changes no
\* field of the visitor; it returns the skip signal exactly when class-mode
\* is set, and nothing otherwise.
C16_OtherCallSkippedInClassMode ==
    OtherCallEntered =>
       /\ NoOp
       /\ last.ret = IF last.this.classDetected THEN Skip ELSE undefined
       /\ Top.node = last.node /\ Top.skip = last.this.classDetected

\* A call of something else than Polymer was entered in class-mode.
C16_Witness ==
    /\ OtherCallEntered
    /\ last.this.classDetected
    /\ last.ret = Skip

\* The last callback ran with no descriptor open and class-mode clear.
RanWhenIdle == last.this.element = null /\ ~last.this.classDetected

\* C17: with no descriptor open and class-mode clear, the callbacks for
\* assignments, method definitions and object literals change no field of
\* the visitor, throw nothing and return no skip signal, whatever the keys
\* of the node are; an assignment whose target is not `this`, or whose name
\* is not in the handler map, changes nothing and throws nothing in any
\* state.
C17_NoOpsWhenIdle ==
    /\ (/\ last.ev \in {"enterAssignmentExpression", "enterMethodDefinition",
                        "enterObjectExpression"}
        /\ RanWhenIdle)
          => NoOp /\ last.ret = undefined
    /\ (/\ last.ev = "enterObjectExpression"
        /\ RanWhenIdle)
          => Top.node = last.node /\ ~Top.skip
    /\ (/\ last.ev = "enterAssignmentExpression"
        /\ \/ last.node.object # "ThisExpression"
           \/ last.this.propertyHandlers = null
           \/ last.node.property \notin last.this.propertyHandlers.names)
          => NoOp /\ last.ret = undefined

\* An object literal with an unresolvable key was entered with no
\* descriptor open and class-mode clear.
C17_Witness ==
    /\ last.ev = "enterObjectExpression"
    /\ RanWhenIdle
    /\ \E i \in DOMAIN last.node.properties :
          objectKeyToString(last.node.properties[i].key) = undefined

(***************************************************************************)
(* Object literals that are no declaration bodies.                         *)
(***************************************************************************)
\* Some open node around the node of the last callback had returned the
\* skip signal.
UnderSkip == \E i \in 1..(Len(stack) - 1) : stack[i].skip

\* C18: an object literal below an object literal that was processed as a
\* declaration body gets no callback at all, and an object literal inside a
\* class body is never processed as a declaration body.
C18_NoBodyInsideBodyOrClass ==
    last.ev = "enterObjectExpression" =>
       /\ ~UnderSkip
       /\ InClass => ~BodyEvent

(***************************************************************************)
(* The open descriptor and the handler map.                                *)
(***************************************************************************)
\* C19: in every state between callbacks the open descriptor and the
\* handler map are both set or both null, the handler map is the one built
\* for the open descriptor, and no lookup of a name in the handler map has
\* failed on a null map.
C19_ElementAndHandlersTogether ==
    /\ element = null <=> propertyHandlers = null
    /\ element # null => propertyHandlers = declarationPropertyHandlers(element)
    /\ last.ev \in {"enterAssignmentExpression", "enterObjectExpression"}
          => last.threw # "TypeError"

\* A name has just been looked up in the handler map: an assignment to a
\* member of `this` was entered with a descriptor open.
C19_Witness ==
    /\ last.ev = "enterAssignmentExpression"
    /\ last.this.element # null
    /\ last.node.object = "ThisExpression"
    /\ last.threw = "none"

(***************************************************************************)
(* Several findEntities calls in flight.                                   *)
(*                                                                         *)
(* JavaScript runs one callback at a time, so the traversals of two calls  *)
(* interleave callback by callback.  Each call is given the sequence of    *)
(* events of a traversal of its input.                                     *)
(*                                                                         *)
(* calls    : for each call its input (the events of the traversal), the   *)
(*            index of the next event, its state ("new", "visiting",       *)
(*            "resolved", "rejected"), the visitor object it created (0    *)
(*            before it has one), the list it returned, the error it was   *)
(*            rejected with, and whether one of its events was delivered   *)
(*            while another call was in the middle of its traversal        *)
(* visitors : the visitor objects created so far, each the record of its   *)
(*            fields                                                       *)
(***************************************************************************)
Calls == {1, 2}

\* The fields of a visitor after construction (lines 41-49).
ElementVisitor ==
    [entities |-> <<>>, element |-> null, propertyHandlers |-> null,
     classDetected |-> FALSE]

Event(ev, node, id) == [ev |-> ev, node |-> node, id |-> id]

FactoryCall ==
    [type |-> "CallExpression", callee |-> Identifier("Polymer"),
     arguments |-> <<"ObjectExpression">>]

Property(key, kind) == [type |-> "Property", key |-> key, kind |-> kind]

ObjectExpression(props) == [type |-> "ObjectExpression", properties |-> props]

MethodDefinition(name, kind, body) ==
    [type |-> "MethodDefinition", key |-> Identifier(name), kind |-> kind,
     body |-> body]

\* Polymer({x: 1, set y(v) {}})
FactoryTraversal ==
    <<Event("enterCallExpression", FactoryCall, 1),
      Event("enterObjectExpression",
            ObjectExpression(<<Property(Identifier("x"), "init"),
                               Property(Identifier("y"), "set")>>), 2),
      Event("leaveCallExpression", FactoryCall, 1)>>

\* class A { get x() {} get behaviors() { return [A, B] } m() { this.is = e } }
ClassTraversal ==
    <<Event("enterClassDeclaration", ClassDeclaration, 1),
      Event("enterMethodDefinition", MethodDefinition("x", "get", <<>>), 2),
      Event("enterMethodDefinition",
            MethodDefinition("behaviors", "get",
               <<ReturnStatement(ArrayExpression("behaviors", 2))>>), 3),
      Event("enterMethodDefinition", MethodDefinition("x", "method", <<>>), 6),
      Event("enterAssignmentExpression",
            [type |-> "AssignmentExpression", object |-> "ThisExpression",
             property |-> "is"], 7),
      Event("leaveClassDeclaration", ClassDeclaration, 1)>>

\* Polymer({is: 'a'}); Polymer({get x() {}})
TwoFactoriesTraversal ==
    <<Event("enterCallExpression", FactoryCall, 1),
      Event("enterObjectExpression",
            ObjectExpression(<<Property(Identifier("is"), "init")>>), 2),
      Event("leaveCallExpression", FactoryCall, 1),
      Event("enterCallExpression", FactoryCall, 4),
      Event("enterObjectExpression",
            ObjectExpression(<<Property(Identifier("x"), "get")>>), 5),
      Event("leaveCallExpression", FactoryCall, 4)>>

\* Polymer({x: 1, [k()]: 2}): the traversal ends with the callback that
\* throws.
FailingTraversal ==
    <<Event("enterCallExpression", FactoryCall, 1),
      Event("enterObjectExpression",
            ObjectExpression(<<Property(Identifier("x"), "init"),
                               Property(ComputedKey, "init")>>), 2)>>

Traversals ==
    {FactoryTraversal, ClassTraversal, TwoFactoriesTraversal, FailingTraversal}

\* The callback the driver calls for event e, on the visitor with fields
\* this.
Dispatch(this, e) ==
    CASE e.ev = "enterClassDeclaration" ->
            enterClassDeclaration(this, e.node, e.id)
      [] e.ev = "leaveClassDeclaration" -> leaveClassDeclaration(this, e.node)
      [] e.ev = "enterAssignmentExpression" ->
            enterAssignmentExpression(this, e.node)
      [] e.ev = "enterMethodDefinition" -> enterMethodDefinition(this, e.node)
      [] e.ev = "enterCallExpression" ->
            enterCallExpression(this, e.node, e.id)
      [] e.ev = "leaveCallExpression" -> leaveCallExpression(this, e.node)
      [] e.ev = "enterObjectExpression" -> enterObjectExpression(this, e.node)

\* The fields of the visitor after a callback yielded r.
After(r) == [r.this EXCEPT !.entities = Aliased(r.this)]

\* One visitor object used by every call.
sharedElementVisitor(heap) ==
    IF heap = <<>> THEN [heap |-> <<ElementVisitor>>, ref |-> 1]
    ELSE [heap |-> heap, ref |-> 1]

\* `new ElementVisitor()`: a new object is added to the objects that exist
\* and the call holds the reference to it.
newElementVisitor(heap) ==
    [heap |-> Append(heap, ElementVisitor), ref |-> Len(heap) + 1]

InitConcurrent ==
    /\ entities = <<>>
    /\ element = null
    /\ propertyHandlers = null
    /\ classDetected = FALSE
    /\ stack = <<>>
    /\ nodes = 0
    /\ skipped = {}
    /\ pc = "visit"
    /\ last = NoEvent
    /\ calls \in [Calls -> {[input |-> t, next |-> 1, state |-> "new",
                             visitor |-> 0, result |-> <<>>,
                             error |-> "none", interleaved |-> FALSE] :
                               t \in Traversals}]
    /\ visitors = <<>>

Single ==
    <<entities, element, propertyHandlers, classDetected, stack, nodes,
      skipped, pc, last>>

\* findEntities is called: it creates its visitor and starts the traversal
\* (lines 35-36).
FindEntities(k) ==
    /\ calls[k].state = "new"
    /\ LET v == newElementVisitor(visitors)
       IN /\ visitors' = v.heap
          /\ calls' = [calls EXCEPT ![k].state = "visiting",
                                    ![k].visitor = v.ref]
    /\ UNCHANGED Single

\* Call j has received some of its events and not yet all of them.
MidTraversal(j) ==
    /\ calls[j].state = "visiting"
    /\ calls[j].next > 1
    /\ calls[j].next <= Len(calls[j].input)

\* The driver of call k delivers the next event to the call's visitor; a
\* callback that throws rejects the call (line 36).
Visit(k) ==
    /\ calls[k].state = "visiting"
    /\ calls[k].next <= Len(calls[k].input)
    /\ LET r == Dispatch(visitors[calls[k].visitor],
                         calls[k].input[calls[k].next])
           among == calls[k].interleaved
                    \/ \E j \in Calls \ {k} : MidTraversal(j)
       IN /\ visitors' = [visitors EXCEPT ![calls[k].visitor] = After(r)]
          /\ calls' = IF r.threw = "none"
                      THEN [calls EXCEPT ![k].next = @ + 1,
                                         ![k].interleaved = among]
                      ELSE [calls EXCEPT ![k].next = @ + 1,
                                         ![k].interleaved = among,
                                         ![k].state = "rejected",
                                         ![k].error = r.threw]
    /\ UNCHANGED Single

\* The traversal of call k is over: findEntities returns visitor.entities
\* (line 37).
ReturnEntities(k) ==
    /\ calls[k].state = "visiting"
    /\ calls[k].next > Len(calls[k].input)
    /\ calls' = [calls EXCEPT ![k].state = "resolved",
                              ![k].result = visitors[calls[k].visitor].entities]
    /\ UNCHANGED visitors
    /\ UNCHANGED Single

NextConcurrent ==
    \E k \in Calls :
       \/ FindEntities(k)
       \/ Visit(k)
       \/ ReturnEntities(k)

SpecConcurrent == InitConcurrent /\ [][NextConcurrent]_vars

\* A call alone: the events of a traversal delivered one after the other to
\* a visitor with fields this, up to the first callback that throws.
RECURSIVE Alone(_, _)
Alone(this, events) ==
    IF events = <<>> THEN Return(this, undefined)
    ELSE LET r == Dispatch(this, Head(events))
         IN IF r.threw # "none" THEN [r EXCEPT !.this = After(r)]
            ELSE Alone(After(r), Tail(events))

\* C13: whatever the interleaving of the events of the calls in flight, a
\* call's visitor holds, after each event, what it holds after the same
\* events when the call runs alone; the call returns the list it returns
\* alone and is rejected exactly when it is rejected alone.
C13_InterleavedAsAlone ==
    \A k \in DOMAIN calls :
       LET c == calls[k]
           sofar == Alone(ElementVisitor, SubSeq(c.input, 1, c.next - 1))
           whole == Alone(ElementVisitor, c.input)
       IN /\ c.state = "visiting" =>
               sofar.threw = "none" /\ visitors[c.visitor] = sofar.this
          /\ c.state = "resolved" =>
               whole.threw = "none" /\ c.result = whole.this.entities
          /\ c.state = "rejected" =>
               whole.threw = c.error /\ whole.threw # "none"
          /\ \A j \in DOMAIN calls :
               (j # k /\ c.visitor # 0) => calls[j].visitor # c.visitor

\* Two calls with different inputs have returned, the events of one having
\* been delivered while the other was in the middle of its traversal.
C13_Witness ==
    /\ DOMAIN calls = Calls
    /\ calls[1].state = "resolved" /\ calls[2].state = "resolved"
    /\ calls[1].input # calls[2].input
    /\ calls[1].result # <<>> /\ calls[2].result # <<>>
    /\ calls[1].interleaved /\ calls[2].interleaved

====
